---- MODULE Spec2Model ----
(***************************************************************************)
(* Model of the asynchronous log dispatcher of yealink_actionurl           *)
(* (src/log.go): producers calling SendLog, the unbuffered LogChannel,     *)
(* the single processLogChannel worker, LokiClient.PushLog and             *)
(* CloseLogManager.                                                        *)
(*                                                                         *)
(* Records are identified by the order in which SendLog was entered:       *)
(* record n is the n-th record handed to SendLog.                          *)
(***************************************************************************)
EXTENDS Integers, Sequences, FiniteSets

\* ---------------------------------------------------------------- bounds
NumProducers == 2
MaxRecords == 3
NumClosers == 2
\* AddTemplate calls in one behaviour of the template registry.
MaxAdds == 2

\* ------------------------------------------------------ program constants
\* A channel made with room for one record.
BufferedChannelCap == 0 + 1
\* make(chan *LoggingFormat): no capacity argument, an unbuffered channel.
LogChannelCap == 0
\* A second processLogChannel goroutine on the same channel.
TwoWorkers == 1 + 1
\* NewLogManager starts one processLogChannel goroutine ...
NumWorkers == 1
\* ... and registers it with lm.wg.Add(1).
WgInitial == 1
StatusOK == 200
StatusNoContent == 204

Producers == 1..NumProducers
Closers == 1..NumClosers
Workers == 1..NumWorkers
Records == 1..MaxRecords

\* --------------------------------------------------------- configuration
\* A nil *LokiClient.
Nil == [nil |-> TRUE]

EmptyURL == ""
\* url.Parse rejects it ("missing protocol scheme"), so http.NewRequest fails.
MalformedURL == ":loki"
GoodURL == "http://loki:3100/loki/api/v1/push"
PushURLs == {EmptyURL, MalformedURL, GoodURL}

\* The LokiClient values NewLokiClient can build (Username and Password do
\* not influence control flow), and the nil client NewLogManager accepts.
\* LOKI_JOB.
Jobs == {"yealink"}
LokiClients == [Enabled : BOOLEAN, PushURL : PushURLs, Job : Jobs]
ClientConfigs == {Nil} \cup LokiClients

\* What client.Do can come back with: a response carrying a status code, or
\* a transport-level error.
Response(status) == [transport |-> FALSE, status |-> status]
TransportError == [transport |-> TRUE, status |-> 0]
\* Status codes a backend may answer with besides the two PushLog tests for.
OtherStatuses == {201, 500}
HttpOutcomes == {Response(s) : s \in {StatusOK, StatusNoContent} \cup OtherStatuses}
                \cup {TransportError}
\* No client.Do call was made.
NoOutcome == [transport |-> FALSE, status |-> 0]

NoPanic == "none"
PanicSend == "send on closed channel"
PanicClose == "close of closed channel"
\* log.Fatal: the entry is logged and the process exits with os.Exit(1),
\* deferred calls are not run.
FatalExit == "log.Fatal: os.Exit(1)"

VARIABLES
    client,     \* lm.LokiClient
    pc,         \* producer -> "idle" | "send" (at or parked in
                \* lm.LogChannel <- log) | "sent" (its value was taken, the
                \* send statement and SendLog have not returned yet)
    prec,       \* producer -> record it is sending (0 when idle)
    nextId,     \* number of the next record handed to SendLog
    console,    \* records written by Print, in order
    returned,   \* records whose SendLog call has returned
    closed,     \* LogChannel has been closed
    buf,        \* LogChannel's buffer
    wpc,        \* worker -> "recv" | "got" | "http" | "exited"
    cur,        \* worker -> record being processed (0 when none)
    wg,         \* lm.wg counter
    accepted,   \* records received by a worker, in order
    pushed,     \* records PushLog was invoked for, in order
    finished,   \* records whose loop iteration is complete, in order
    failed,     \* records whose PushLog returned an error
    httpCalls,  \* number of client.Do calls made
    errLogs,    \* number of "Failed to send log to Loki" lines
    lastPush,   \* the last completed PushLog call
    cpc,        \* closer -> "idle" | "wait" | "returned"
    panic,      \* what ended the process, if anything: a runtime panic or
                \* the os.Exit of log.Fatal
    owner,      \* record -> producer that handed it to SendLog (0: nobody yet)
    level,      \* record -> its Level ("none": not built yet)
    pushArgs,   \* the (labels, entry) arguments of every PushLog call, in order
    posted,     \* the payloads handed to client.Do, in order
    saveToFileEnabled,  \* main.go's saveToFileEnabled
    saved,      \* record -> how saveToFile went in the request that sent it
    responses,  \* record -> status handleActionEvent answered with (0: none)
    Templates,  \* lm.Templates
    addHistory, \* the AddTemplate calls made, in order
    lastResolve \* the last formatTemplate call and its result

\* The dispatcher of log.go.
producerVars == <<pc, prec, nextId, console, returned, owner, level>>
workerVars == <<wpc, cur, wg, accepted>>
pushVars == <<pushed, finished, failed, httpCalls, errLogs, lastPush,
              pushArgs, posted>>
\* The request handler of main.go.
handlerVars == <<saveToFileEnabled, saved, responses>>
\* The template registry of log.go.
templateVars == <<Templates, addHistory, lastResolve>>

vars == <<client, producerVars, closed, buf, workerVars, pushVars, cpc, panic,
          handlerVars, templateVars>>

\* ------------------------------------------------------------- helpers
SeqToSet(s) == {s[i] : i \in 1..Len(s)}

Count(s, x) == Cardinality({i \in 1..Len(s) : s[i] = x})

IsPrefix(s, t) == Len(s) <= Len(t) /\ \A i \in 1..Len(s) : s[i] = t[i]

NoPush == [rec |-> 0, calls |-> 0, outcome |-> NoOutcome, err |-> FALSE]

\* ------------------------------------------------------------- PushLog
\* The no-op test without its PushURL == "" operand.
IsNoopDisabledOnly(c) == c = Nil \/ ~c.Enabled
\* The no-op test without its !c.Enabled operand.
IsNoopEmptyURLOnly(c) == c = Nil \/ c.PushURL = EmptyURL
\* if c == nil || !c.Enabled || c.PushURL == "" { return nil }
IsNoop(c) == c = Nil \/ ~c.Enabled \/ c.PushURL = EmptyURL

\* json.Marshal of a LokiPushData (string maps and string pairs) has no
\* failing input: the marshal error branch is never taken.
MarshalFails(c) == FALSE

\* http.NewRequest("POST", c.PushURL, ...) fails when the URL does not parse.
NewRequestFails(c) == c.PushURL = MalformedURL

\* The status test without its StatusOK operand.
UnexpectedStatusNot204(status) == status # StatusNoContent
\* resp.StatusCode != http.StatusNoContent && resp.StatusCode != http.StatusOK
UnexpectedStatus(status) == status # StatusNoContent /\ status # StatusOK

\* The error value PushLog returns after client.Do came back with outcome o.
DoError(o) == o.transport \/ UnexpectedStatus(o.status)

\* if err != nil { if lm.LokiClient.Enabled { logrus...Error(...) } }
LogsError(c, err) == err /\ c.Enabled

\* -------------------------------------------------------- the wire payload
\* The fields of record r that the worker reads: BuildLog's upper-cased Type
\* and its time.Now() Timestamp (in nanoseconds).
\* A record sent by handleActionEvent has Type PHONE_ACTION, and ErrorLevel
\* when saveToFile failed.
LogOf(r) == [Type |-> IF saved[r] # "none" \/ r % 2 = 1
                      THEN "PHONE_ACTION" ELSE "SYSTEM",
             Level |-> level[r],
             Timestamp |-> 1700000000 + r]

\* LoggingFormat.String(): the JSON text of the record.
LogString(log) == [json |-> log]

\* strconv.FormatInt(n, 10) for n >= 0: the decimal digits of n.
RECURSIVE FormatInt(_)
FormatInt(n) == IF n < 10 THEN <<n>> ELSE Append(FormatInt(n \div 10), n % 10)

\* Labels that carry the job in both places.
WorkerLabelsJobOnly(c, log) == [job |-> c.Job, type |-> c.Job]
\* labels := map[string]string{"job": lm.LokiClient.Job, "type": log.Type}
WorkerLabels(c, log) == [job |-> c.Job, type |-> log.Type]

\* entry := LogEntry{Timestamp: log.Timestamp, Line: log.String()}
WorkerEntry(log) == [Timestamp |-> log.Timestamp, Line |-> LogString(log)]

\* payload := LokiPushData{Streams: []LokiStream{{Stream: labels,
\*     Values: [][2]string{{FormatInt(entry.Timestamp.UnixNano(), 10), entry.Line}}}}}
PushPayload(labels, entry) ==
    [streams |-> << [stream |-> labels,
                     values |-> << <<FormatInt(entry.Timestamp), entry.Line>> >>] >>]

\* if lm.LokiClient == nil { continue }
NoSink(c) == c = Nil

\* The worker leaving its loop when a push failed.
ReturnOnError(err) == IF err THEN "exited" ELSE "recv"
\* Where the worker goes after PushLog returned: the if statement has no
\* return or break, the loop goes on to its next receive either way.
AfterPush(err) == "recv"

\* ------------------------------------------------------------- Print
\* logrus.Level.String() of the seven levels, most severe first.
LogrusLevels == <<"panic", "fatal", "error", "warning", "info", "debug", "trace">>
\* The level of logrus' standard logger: InfoLevel, nothing sets another.
StandardLoggerLevel == "info"

\* The position of a level in logrus' order.
LevelRank(lvl) == CHOOSE i \in 1..Len(LogrusLevels) : LogrusLevels[i] = lvl

\* The switch on lf.Level: the level of the logrus call Print makes. Error,
\* Warn and Debug have a case of their own, every other level is written
\* with Info.
PrintCallLevel(lvl) == IF lvl \in {"error", "warning", "debug"} THEN lvl ELSE "info"

\* Entry.log writes only when the logger's level is at least the call's.
IsLevelEnabled(callLevel) == LevelRank(StandardLoggerLevel) >= LevelRank(callLevel)

\* A Print that writes nothing.
EmitNothing(con, r, lvl) == con
\* A Print that writes the record twice.
EmitTwice(con, r, lvl) == Append(Append(con, r), r)
\* A Print that writes whatever the level.
EmitAlways(con, r, lvl) == Append(con, r)
\* Print makes one logrus call, chosen by the switch on lf.Level; the call
\* writes one console line unless the logger's level suppresses it.
LoggingFormatPrint(con, r, lvl) ==
    IF IsLevelEnabled(PrintCallLevel(lvl)) THEN Append(con, r) ELSE con

\* The level callers of the library build record n with: every third record
\* is a DebugLevel record, the others are WarnLevel records.
BuildLevel(n) == IF n % 3 = 0 THEN "debug" ELSE "warning"

\* A loop that ends as soon as the channel is empty.
RangeDoneOnEmpty == buf = <<>>
\* for log := range lm.LogChannel ends when the channel is closed and empty.
RangeDone == closed /\ buf = <<>>

\* A Wait that does not wait.
WaitReturnsAtOnce == TRUE
\* wg.Wait() returns when the counter is zero.
WaitReturns == wg = 0

\* Workers parked in the channel receive.
Waiting == IF buf = <<>> THEN {w \in Workers : wpc[w] = "recv"} ELSE {}

\* ------------------------------------------------------ template registry
\* Strings are sequences of one-character strings.
LowerLetters == <<"a", "b", "c", "d", "e", "f", "g", "h", "i", "j", "k", "l", "m",
                  "n", "o", "p", "q", "r", "s", "t", "u", "v", "w", "x", "y", "z">>
UpperLetters == <<"A", "B", "C", "D", "E", "F", "G", "H", "I", "J", "K", "L", "M",
                  "N", "O", "P", "Q", "R", "S", "T", "U", "V", "W", "X", "Y", "Z">>

\* unicode.ToUpper on one ASCII character.
ToUpperChar(ch) ==
    IF \E i \in 1..Len(LowerLetters) : LowerLetters[i] = ch
    THEN UpperLetters[CHOOSE i \in 1..Len(LowerLetters) : LowerLetters[i] = ch]
    ELSE ch

\* strings.ToUpper
ToUpper(str) == [i \in 1..Len(str) |-> ToUpperChar(str[i])]

\* Arguments handed to fmt.Sprintf.
IntArg(n) == [type |-> "int", value |-> n]
StringArg(x) == [type |-> "string", value |-> x]

\* A character of Sprintf's output that was copied or written as such.
Lit(ch) == [lit |-> ch]
\* The output that is this string.
Literal(str) == [i \in 1..Len(str) |-> Lit(str[i])]

\* The verbs fmt accepts for an argument of this type (of those modelled).
GoodVerb(verb, arg) ==
    \/ verb = "v"
    \/ verb = "s" /\ arg.type = "string"
    \/ verb = "d" /\ arg.type = "int"

\* fmt.Sprintf(format, args...) from position i of the format with argument
\* k next: literal characters are copied, %% is a percent sign, a verb takes
\* the next argument (%!verb(MISSING) when there is none, %!verb(type=value)
\* when the verb does not fit), a lone % at the end is %!(NOVERB), and
\* arguments left over are reported as %!(EXTRA ...). The result is a
\* sequence of literal characters and of these pieces.
RECURSIVE SprintfFrom(_, _, _, _)
SprintfFrom(format, args, i, k) ==
    IF i > Len(format)
    THEN IF k <= Len(args)
         THEN << [extra |-> SubSeq(args, k, Len(args))] >>
         ELSE <<>>
    ELSE IF format[i] # "%"
    THEN <<Lit(format[i])>> \o SprintfFrom(format, args, i + 1, k)
    ELSE IF i = Len(format)
    THEN << [noverb |-> TRUE] >> \o SprintfFrom(format, args, i + 1, k)
    ELSE IF format[i + 1] = "%"
    THEN <<Lit("%")>> \o SprintfFrom(format, args, i + 2, k)
    ELSE IF k > Len(args)
    THEN << [missing |-> format[i + 1]] >> \o SprintfFrom(format, args, i + 2, k)
    ELSE IF GoodVerb(format[i + 1], args[k])
    THEN << [shown |-> args[k].value] >> \o SprintfFrom(format, args, i + 2, k + 1)
    ELSE << [badverb |-> format[i + 1], arg |-> args[k]] >>
             \o SprintfFrom(format, args, i + 2, k + 1)

Sprintf(format, args) == SprintfFrom(format, args, 1, 1)

\* Storing under the name as written.
TemplatesWithRawName(T, name, template) ==
    [k \in DOMAIN T \cup {name} |-> IF k = name THEN template ELSE T[k]]
\* lm.Templates[strings.ToUpper(name)] = template
TemplatesWith(T, name, template) ==
    [k \in DOMAIN T \cup {ToUpper(name)} |->
        IF k = ToUpper(name) THEN template ELSE T[k]]

\* A fallback that formats the upper-cased name.
formatTemplateUpperFallback(T, templateName, args) ==
    IF ToUpper(templateName) \in DOMAIN T
    THEN Sprintf(T[ToUpper(templateName)], args)
    ELSE Sprintf(ToUpper(templateName), args)
\* template, exists := lm.Templates[strings.ToUpper(templateName)];
\* Sprintf(templateName, args...) if !exists, else Sprintf(template, args...)
formatTemplate(T, templateName, args) ==
    IF ToUpper(templateName) \in DOMAIN T
    THEN Sprintf(T[ToUpper(templateName)], args)
    ELSE Sprintf(templateName, args)

\* LoadTemplates: the three templates main registers at start.
LoadTemplates(T) ==
    TemplatesWith(
        TemplatesWith(
            TemplatesWith(T, <<"G", "e", "n", "e", "r", "i", "c", "E", "r", "r", "o", "r">>,
                          <<"A", "n", " ", "e", "r", "r", "o", "r", " ", "o", "c", "c", "u", "r", "r", "e", "d", ":", " ", "%", "v">>),
            <<"U", "n", "e", "x", "p", "e", "c", "t", "e", "d", "E", "r", "r", "o", "r">>,
            <<"U", "n", "e", "x", "p", "e", "c", "t", "e", "d", " ", "e", "r", "r", "o", "r", ":", " ", "%", "v">>),
        <<"U", "n", "h", "a", "n", "d", "l", "e", "d", "E", "x", "c", "e", "p", "t", "i", "o", "n">>,
        <<"U", "n", "h", "a", "n", "d", "l", "e", "d", " ", "e", "x", "c", "e", "p", "t", "i", "o", "n", ":", " ", "%", "v">>)

\* Names and format strings the registry is exercised with.
NameFooLower == <<"f", "o", "o">>
NameFooUpper == <<"F", "O", "O">>
NameFooMixed == <<"F", "o", "o">>
\* "id %v": a name that is a format string of its own.
NameIdVerb == <<"i", "d", " ", "%", "v">>
\* "X_UNKNOWN"
NameUnknown == <<"X", "_", "U", "N", "K", "N", "O", "W", "N">>
AddNames == {NameFooLower, NameFooUpper, NameFooMixed, NameIdVerb}
ResolveNames == AddNames \cup {NameUnknown}
\* "a: %v" and "b %s %d"
TemplateStrings == {<<"a", ":", " ", "%", "v">>,
                    <<"b", " ", "%", "s", " ", "%", "d">>}
ArgLists == {<<>>, <<IntArg(1)>>, <<IntArg(1), IntArg(2)>>,
             <<StringArg("acme"), IntArg(7)>>}

\* make(map[string]string): no template yet.
NoTemplates == [k \in {} |-> ""]
NoResolve == [name |-> <<>>, args |-> <<>>, msg |-> <<>>, at |-> 0, called |-> FALSE]

\* The request handler and the template registry before any call.
HandlerInit ==
    /\ saved = [r \in Records |-> "none"]
    /\ responses = [r \in Records |-> 0]

TemplatesInit ==
    /\ Templates = NoTemplates
    /\ addHistory = <<>>
    /\ lastResolve = NoResolve

\* The dispatcher as NewLogManager leaves it.
DispatcherInit ==
    /\ pc = [p \in Producers |-> "idle"]
    /\ prec = [p \in Producers |-> 0]
    /\ nextId = 1
    /\ console = <<>>
    /\ returned = {}
    /\ owner = [r \in Records |-> 0]
    /\ level = [r \in Records |-> "none"]
    /\ closed = FALSE
    /\ buf = <<>>
    /\ wpc = [w \in Workers |-> "recv"]
    /\ cur = [w \in Workers |-> 0]
    /\ wg = WgInitial
    /\ accepted = <<>>
    /\ pushed = <<>>
    /\ finished = <<>>
    /\ failed = {}
    /\ httpCalls = 0
    /\ errLogs = 0
    /\ lastPush = NoPush
    /\ pushArgs = <<>>
    /\ posted = <<>>
    /\ cpc = [c \in Closers |-> "idle"]
    /\ panic = NoPanic

Init ==
    /\ client \in ClientConfigs
    /\ DispatcherInit
    /\ saveToFileEnabled = TRUE
    /\ HandlerInit
    /\ TemplatesInit

\* SendLog, first statement, on the dispatcher: log.Print(); the caller then
\* reaches the send.
EnterSendLog(p, lvl) ==
    /\ panic = NoPanic
    /\ pc[p] = "idle"
    /\ nextId <= MaxRecords
    /\ level' = [level EXCEPT ![nextId] = lvl]
    /\ console' = LoggingFormatPrint(console, nextId, lvl)
    /\ pc' = [pc EXCEPT ![p] = "send"]
    /\ prec' = [prec EXCEPT ![p] = nextId]
    /\ owner' = [owner EXCEPT ![nextId] = p]
    /\ nextId' = nextId + 1
    /\ UNCHANGED <<client, returned, closed, buf, workerVars, pushVars, cpc, panic>>

\* SendLog called by any caller.
SendLog(p) ==
    /\ EnterSendLog(p, BuildLevel(nextId))
    /\ UNCHANGED <<handlerVars, templateVars>>

\* SendLog, second statement: lm.LogChannel <- log, up to the moment the
\* value leaves the sender. On a closed channel the send panics; with a
\* receiver at its receive the value goes straight to it (whichever of the
\* two came first, the transfer is one step under the channel's lock); with
\* room in the buffer it is stored; otherwise the sender stays parked. The
\* sender goes on only when it is scheduled again: see LeaveSendLog.
Handoff(p) ==
    /\ panic = NoPanic
    /\ pc[p] = "send"
    /\ IF closed
       THEN /\ panic' = PanicSend
            /\ UNCHANGED <<pc, prec, returned, buf, wpc, cur, accepted>>
       ELSE /\ panic' = panic
            /\ IF Waiting # {}
               THEN /\ \E w \in Waiting :
                        /\ wpc' = [wpc EXCEPT ![w] = "got"]
                        /\ cur' = [cur EXCEPT ![w] = prec[p]]
                    /\ accepted' = Append(accepted, prec[p])
                    /\ buf' = buf
               ELSE /\ Len(buf) < LogChannelCap
                    /\ buf' = Append(buf, prec[p])
                    /\ UNCHANGED <<wpc, cur, accepted>>
            /\ pc' = [pc EXCEPT ![p] = "sent"]
            /\ UNCHANGED <<prec, returned>>
    /\ UNCHANGED <<client, nextId, console, owner, level, closed, wg, pushVars, cpc>>

\* The send of a SendLog called by any caller.
ChanSend(p) ==
    /\ Handoff(p)
    /\ UNCHANGED <<handlerVars, templateVars>>

\* The sender whose value was taken runs again: the send statement is
\* complete and SendLog returns. The worker may have run in between.
LeaveSendLog(p) ==
    /\ panic = NoPanic
    /\ pc[p] = "sent"
    /\ pc' = [pc EXCEPT ![p] = "idle"]
    /\ prec' = [prec EXCEPT ![p] = 0]
    /\ returned' = returned \cup {prec[p]}
    /\ UNCHANGED <<client, nextId, console, owner, level, closed, buf,
                   workerVars, pushVars, cpc, panic>>

\* The return of a SendLog called by any caller.
SendLogReturn(p) ==
    /\ LeaveSendLog(p)
    /\ UNCHANGED <<handlerVars, templateVars>>

\* The range receive when no sender hands a value over: a buffered value is
\* taken, or the loop ends on a closed and empty channel and the deferred
\* lm.wg.Done() runs.
RangeRecv(w) ==
    /\ panic = NoPanic
    /\ wpc[w] = "recv"
    /\ IF buf # <<>>
       THEN /\ wpc' = [wpc EXCEPT ![w] = "got"]
            /\ cur' = [cur EXCEPT ![w] = Head(buf)]
            /\ accepted' = Append(accepted, Head(buf))
            /\ buf' = Tail(buf)
            /\ wg' = wg
       ELSE /\ RangeDone
            /\ wpc' = [wpc EXCEPT ![w] = "exited"]
            /\ wg' = wg - 1
            /\ UNCHANGED <<cur, accepted, buf>>
    /\ UNCHANGED <<client, producerVars, closed, pushVars, cpc, panic,
                   handlerVars, templateVars>>

\* The loop body up to the point where PushLog either returns or has called
\* client.Do.
Process(w) ==
    /\ panic = NoPanic
    /\ wpc[w] = "got"
    /\ IF NoSink(client)
       THEN \* continue
            /\ finished' = Append(finished, cur[w])
            /\ wpc' = [wpc EXCEPT ![w] = "recv"]
            /\ cur' = [cur EXCEPT ![w] = 0]
            /\ UNCHANGED <<pushed, failed, httpCalls, errLogs, lastPush,
                           pushArgs, posted>>
       ELSE /\ pushed' = Append(pushed, cur[w])
            /\ pushArgs' = Append(pushArgs,
                                  [labels |-> WorkerLabels(client, LogOf(cur[w])),
                                   entry |-> WorkerEntry(LogOf(cur[w]))])
            /\ IF IsNoop(client)
               THEN /\ lastPush' = [rec |-> cur[w], calls |-> 0,
                                    outcome |-> NoOutcome, err |-> FALSE]
                    /\ finished' = Append(finished, cur[w])
                    /\ wpc' = [wpc EXCEPT ![w] = AfterPush(FALSE)]
                    /\ cur' = [cur EXCEPT ![w] = 0]
                    /\ UNCHANGED <<failed, httpCalls, errLogs, posted>>
               ELSE IF MarshalFails(client) \/ NewRequestFails(client)
               THEN /\ lastPush' = [rec |-> cur[w], calls |-> 0,
                                    outcome |-> NoOutcome, err |-> TRUE]
                    /\ failed' = failed \cup {cur[w]}
                    /\ errLogs' = IF LogsError(client, TRUE)
                                  THEN errLogs + 1 ELSE errLogs
                    /\ finished' = Append(finished, cur[w])
                    /\ wpc' = [wpc EXCEPT ![w] = AfterPush(TRUE)]
                    /\ cur' = [cur EXCEPT ![w] = 0]
                    /\ UNCHANGED <<httpCalls, posted>>
               ELSE \* client.Do(req)
                    /\ httpCalls' = httpCalls + 1
                    /\ posted' = Append(posted,
                           PushPayload(WorkerLabels(client, LogOf(cur[w])),
                                       WorkerEntry(LogOf(cur[w]))))
                    /\ wpc' = [wpc EXCEPT ![w] = "http"]
                    /\ UNCHANGED <<cur, finished, failed, errLogs, lastPush>>
    /\ UNCHANGED <<client, producerVars, closed, buf, wg, accepted, cpc, panic,
                   handlerVars, templateVars>>

\* client.Do returns with outcome o; PushLog returns; the worker logs the
\* error, if any, and goes back to the receive.
HttpReturn(w, o) ==
    /\ panic = NoPanic
    /\ wpc[w] = "http"
    /\ lastPush' = [rec |-> cur[w], calls |-> 1, outcome |-> o,
                    err |-> DoError(o)]
    /\ failed' = IF DoError(o) THEN failed \cup {cur[w]} ELSE failed
    /\ errLogs' = IF LogsError(client, DoError(o)) THEN errLogs + 1 ELSE errLogs
    /\ finished' = Append(finished, cur[w])
    /\ wpc' = [wpc EXCEPT ![w] = AfterPush(DoError(o))]
    /\ cur' = [cur EXCEPT ![w] = 0]
    /\ UNCHANGED <<client, producerVars, closed, buf, wg, accepted, pushed,
                   httpCalls, pushArgs, posted, cpc, panic,
                   handlerVars, templateVars>>

\* A close that tolerates a closed channel.
CloseChanOnce(c) ==
    /\ panic = NoPanic
    /\ cpc[c] = "idle"
    /\ closed' = TRUE
    /\ cpc' = [cpc EXCEPT ![c] = "wait"]
    /\ UNCHANGED <<client, producerVars, buf, workerVars, pushVars, panic,
                   handlerVars, templateVars>>

\* CloseLogManager, first statement: close(lm.LogChannel).
CloseChan(c) ==
    /\ panic = NoPanic
    /\ cpc[c] = "idle"
    /\ IF closed
       THEN /\ panic' = PanicClose
            /\ UNCHANGED <<closed, cpc>>
       ELSE /\ closed' = TRUE
            /\ cpc' = [cpc EXCEPT ![c] = "wait"]
            /\ panic' = panic
    /\ UNCHANGED <<client, producerVars, buf, workerVars, pushVars,
                   handlerVars, templateVars>>

\* CloseLogManager, second statement: lm.wg.Wait().
WgWait(c) ==
    /\ panic = NoPanic
    /\ cpc[c] = "wait"
    /\ WaitReturns
    /\ cpc' = [cpc EXCEPT ![c] = "returned"]
    /\ UNCHANGED <<client, producerVars, closed, buf, workerVars, pushVars, panic,
                   handlerVars, templateVars>>

Next ==
    \/ \E p \in Producers : SendLog(p)
    \/ \E p \in Producers : ChanSend(p)
    \/ \E p \in Producers : SendLogReturn(p)
    \/ \E w \in Workers : RangeRecv(w)
    \/ \E w \in Workers : Process(w)
    \/ \E w \in Workers, o \in HttpOutcomes : HttpReturn(w, o)
    \/ \E c \in Closers : CloseChan(c)
    \/ \E c \in Closers : WgWait(c)

Spec == Init /\ [][Next]_vars

\* The Go scheduler runs every goroutine that can take a step: a producer
\* whose send can complete or panic or whose value was taken, the worker at its receive or in its loop
\* body, a closer whose Wait can return. Nothing bounds client.Do (the
\* http.Client has no Timeout), so no fairness is assumed for its return; nor
\* for callers entering SendLog or CloseLogManager.
Fairness ==
    /\ \A p \in Producers : WF_vars(ChanSend(p)) /\ WF_vars(SendLogReturn(p))
    /\ \A w \in Workers : WF_vars(RangeRecv(w)) /\ WF_vars(Process(w))
    /\ \A c \in Closers : WF_vars(WgWait(c))

FairSpec == Spec /\ Fairness

\* ---------------------------------------------- the template registry alone
\* AddTemplate(name, template)
AddTemplate(name, template) ==
    /\ Len(addHistory) < MaxAdds
    /\ Templates' = TemplatesWith(Templates, name, template)
    /\ addHistory' = Append(addHistory, [name |-> name, template |-> template])
    /\ UNCHANGED <<client, producerVars, closed, buf, workerVars, pushVars, cpc,
                   panic, handlerVars, lastResolve>>

\* A call of formatTemplate (from BuildLog); the registry is only read.
CallFormatTemplate(name, args) ==
    /\ lastResolve' = [name |-> name, args |-> args,
                       msg |-> formatTemplate(Templates, name, args),
                       at |-> Len(addHistory), called |-> TRUE]
    /\ UNCHANGED <<client, producerVars, closed, buf, workerVars, pushVars, cpc,
                   panic, handlerVars, Templates, addHistory>>

TemplateInit ==
    /\ client = Nil
    /\ DispatcherInit
    /\ saveToFileEnabled = TRUE
    /\ HandlerInit
    /\ TemplatesInit

TemplateNext ==
    \/ \E name \in AddNames, template \in TemplateStrings : AddTemplate(name, template)
    \/ \E name \in ResolveNames, args \in ArgLists : CallFormatTemplate(name, args)

TemplateSpec == TemplateInit /\ [][TemplateNext]_vars

\* ------------------------------------------------------ the program, main.go
\* The deferred lm.CloseLogManager() of main is closer 1.
MainCloser == CHOOSE c \in Closers : \A d \in Closers : c <= d

\* What saveToFile can come back with in a request: not called when
\* SAVE_TO_FILE is off.
SaveResults == IF saveToFileEnabled THEN {"ok", "err"} ELSE {"skipped"}

\* A handler that answers 200 whatever saveToFile returned.
ResponseAlwaysOK(saveResult) == StatusOK
\* c.Status(500).SendString("Error saving event") after a failed saveToFile,
\* c.SendString("Event recorded successfully") (status 200) otherwise.
ResponseStatus(saveResult) == IF saveResult = "err" THEN 500 ELSE StatusOK

\* A log.Fatal that comes back to its caller.
LogFatalReturns == FALSE
\* logrus' Fatal calls Exit(1) after logging.
LogFatalExits == TRUE

\* The level handleActionEvent builds its record with: logrus.ErrorLevel
\* after a failed saveToFile, logrus.InfoLevel otherwise.
HandlerLevel(saveResult) == IF saveResult = "err" THEN "error" ELSE "info"

\* handleActionEvent up to the send inside SendLog: saveToFile (if enabled),
\* BuildLog of the error or the success record, SendLog's Print.
HandleActionEvent(p, saveResult) ==
    /\ saveResult \in SaveResults
    /\ EnterSendLog(p, HandlerLevel(saveResult))
    /\ saved' = [saved EXCEPT ![nextId] = saveResult]
    /\ UNCHANGED <<saveToFileEnabled, responses, templateVars>>

\* handleActionEvent after the send inside SendLog: the handler runs again
\* once its value was taken, SendLog returns and the response is written.
HandlerReturn(p) ==
    /\ LeaveSendLog(p)
    /\ responses' = [responses EXCEPT ![prec[p]] = ResponseStatus(saved[prec[p]])]
    /\ UNCHANGED <<saveToFileEnabled, saved, templateVars>>

\* app.Listen returns and main calls log.Fatal on its result: the process
\* exits there. (Were log.Fatal to return, main would return and run its
\* deferred lm.CloseLogManager().)
ListenReturns ==
    /\ panic = NoPanic
    /\ cpc[MainCloser] = "idle"
    /\ IF LogFatalExits
       THEN /\ panic' = FatalExit
            /\ UNCHANGED <<closed, cpc>>
       ELSE /\ closed' = TRUE
            /\ cpc' = [cpc EXCEPT ![MainCloser] = "wait"]
            /\ panic' = panic
    /\ UNCHANGED <<client, producerVars, buf, workerVars, pushVars,
                   handlerVars, templateVars>>

\* main before app.Listen: NewLokiClient never returns nil, the dispatcher is
\* constructed, LoadTemplates has run, the close is deferred.
MainInit ==
    /\ client \in LokiClients
    /\ DispatcherInit
    /\ saveToFileEnabled \in BOOLEAN
    /\ HandlerInit
    /\ Templates = LoadTemplates(NoTemplates)
    /\ addHistory = <<>>
    /\ lastResolve = NoResolve

MainNext ==
    \/ \E p \in Producers, saveResult \in {"ok", "err", "skipped"} :
           HandleActionEvent(p, saveResult)
    \/ \E p \in Producers : ChanSend(p)
    \/ \E p \in Producers : HandlerReturn(p)
    \/ \E w \in Workers : Process(w)
    \/ \E w \in Workers, o \in HttpOutcomes : HttpReturn(w, o)
    \/ ListenReturns

MainSpec == MainInit /\ [][MainNext]_vars

TypeOK ==
    /\ client \in ClientConfigs
    /\ pc \in [Producers -> {"idle", "send", "sent"}]
    /\ level \in [Records -> {"none"} \cup SeqToSet(LogrusLevels)]
    /\ wpc \in [Workers -> {"recv", "got", "http", "exited"}]
    /\ cpc \in [Closers -> {"idle", "wait", "returned"}]
    /\ panic \in {NoPanic, PanicSend, PanicClose, FatalExit}
\* ================================================================ claims
\* Records handed to SendLog so far.
Sent == 1..(nextId - 1)

\* Records whose Print call writes a console line.
Emitted(r) == IsLevelEnabled(PrintCallLevel(level[r]))

Busy(w) == wpc[w] \in {"got", "http"}

\* C1: when CloseLogManager has returned and every record handed to SendLog
\* had its SendLog call return (so all of them returned before the close),
\* the worker has terminated and has finished exactly those records, each
\* exactly once.
C1_ShutdownDrains ==
    \A c \in Closers :
        (cpc[c] = "returned" /\ returned = Sent) =>
            /\ \A w \in Workers : wpc[w] = "exited"
            /\ wg = 0
            /\ Len(finished) = Cardinality(Sent)
            /\ \A r \in Sent : Count(finished, r) = 1
            /\ Len(accepted) = Cardinality(Sent)

\* C1 witness: two producers have each completed a SendLog, CloseLogManager
\* was called afterwards and has returned.
C1_Witness ==
    /\ \E c \in Closers : cpc[c] = "returned"
    /\ returned = Sent
    /\ Cardinality(Sent) >= NumProducers
    /\ Len(finished) = Cardinality(Sent)
    /\ panic = NoPanic

\* C2 (state part): the channel never holds a record, and a SendLog call has
\* returned only for records the worker has received.
C2_Inv ==
    /\ buf = <<>>
    /\ returned \subseteq SeqToSet(accepted)
    /\ \A p \in Producers : pc[p] = "send" => prec[p] \notin SeqToSet(accepted)

\* C2 (step part): while every worker is busy with a record, no producer at
\* its send gets its record accepted or gets past the send, and a SendLog
\* call that returns is one whose record was accepted before.
C2_Step ==
    /\ (\A w \in Workers : Busy(w)) =>
           /\ accepted' = accepted
           /\ \A p \in Producers : pc[p] = "send" => pc'[p] = "send"
    /\ (returned' \ returned) \subseteq SeqToSet(accepted)

\* C2: SendLog is a rendezvous: capacity zero, SendLog returns only after the
\* worker received that very record, nothing waits in the queue, and a
\* producer stays blocked while the worker is busy with another record.
C2_Rendezvous == [](C2_Inv) /\ [][C2_Step]_vars

\* C2 witness: one SendLog has returned with its record in the worker's hands
\* while another producer is blocked in its send.
C2_Witness ==
    /\ \E w \in Workers : Busy(w) /\ cur[w] \in returned
    /\ \E p \in Producers : pc[p] = "send"

\* C3 (state part): a send-on-closed-channel panic is there only with the
\* channel closed and a producer still at its send; a producer at its send
\* on a closed channel is past Print for its record (the line is on the
\* console unless logrus suppresses the record's level, see C6), and the
\* worker never received that record.
C3_Inv ==
    /\ panic = PanicSend => closed /\ \E p \in Producers : pc[p] = "send"
    /\ \A p \in Producers :
           (closed /\ pc[p] = "send") =>
               /\ prec[p] \in Sent
               /\ Emitted(prec[p]) => Count(console, prec[p]) = 1
               /\ prec[p] \notin SeqToSet(accepted)
               /\ prec[p] \notin SeqToSet(buf)
               /\ prec[p] \notin returned
    /\ returned = Sent => panic # PanicSend

\* C3 (step part): once the channel is closed, a producer at its send never
\* gets past it and nothing more is accepted; only a SendLog whose record
\* the worker took before the close still returns.
C3_Step ==
    closed =>
        /\ accepted' = accepted
        /\ (returned' \ returned) \subseteq SeqToSet(accepted)
        /\ \A p \in Producers : pc[p] = "send" => pc'[p] = "send"

\* C3 as stated: a producer at its send on a closed channel has its record
\* on the console, and the worker never received that record.
C3_Original ==
    \A p \in Producers :
        (closed /\ pc[p] = "send") =>
            /\ Count(console, prec[p]) = 1
            /\ prec[p] \notin SeqToSet(accepted)

\* C3 amended: a SendLog that is blocked in its send when CloseLogManager
\* closes the channel, or reaches its send after the close, ends in a panic
\* of the process; Print has run for its record (its line is on the console
\* unless it is a Debug record) and the record never reaches the worker. No
\* send-on-closed panic happens when every SendLog returned before the close.
C3_CloseSendRace ==
    /\ [](C3_Inv)
    /\ [][C3_Step]_vars
    /\ \A p \in Producers : (closed /\ pc[p] = "send") ~> (panic # NoPanic)

\* C3 witness: the process panicked on a send to the closed channel with
\* two producers at their send, one with its record printed and one with a
\* Debug record that is not on the console; neither record was accepted.
C3_Witness ==
    /\ panic = PanicSend
    /\ \E p \in Producers : pc[p] = "send" /\ prec[p] \in SeqToSet(console)
                            /\ prec[p] \notin SeqToSet(accepted)
    /\ \E p \in Producers : pc[p] = "send" /\ level[prec[p]] = "debug"
                            /\ prec[p] \notin SeqToSet(console)
                            /\ prec[p] \notin SeqToSet(accepted)


\* C4 (state part): no record is pushed or accepted twice, a record whose
\* push failed is nowhere in the channel and no producer is sending it, and
\* the worker has left its loop only with the channel closed.
C4_Inv ==
    /\ \A r \in Records : Count(pushed, r) <= 1 /\ Count(accepted, r) <= 1
    /\ \A r \in failed :
           /\ r \notin SeqToSet(buf)
           /\ \A p \in Producers : pc[p] = "send" => prec[p] # r
           /\ Count(finished, r) = 1
    /\ \A w \in Workers : wpc[w] = "exited" => closed

\* C4 (step part): the step in which a push fails takes the worker back to
\* its receive, and puts nothing in the channel.
C4_Step ==
    failed' # failed =>
        /\ \A w \in Workers : wpc[w] # wpc'[w] => wpc'[w] = "recv"
        /\ buf' = buf
        /\ Len(pushed') <= Len(pushed) + 1

\* C4: a failed push is not repeated, the record is not put back, and the
\* worker stays in its loop.
C4_PushFailureNonFatal == [](C4_Inv) /\ [][C4_Step]_vars

\* C4 witness: a record's push failed and a record sent later has been
\* accepted and finished.
C4_Witness ==
    \E r \in failed : \E i \in 1..Len(finished) :
        /\ finished[i] = r
        /\ i < Len(finished)
        /\ finished[i + 1] \notin failed

\* The dispatcher's state as the lifecycle names it.
DispatcherState ==
    IF ~closed THEN "Running"
    ELSE IF \A w \in Workers : wpc[w] = "exited" THEN "Closed"
    ELSE "Draining"

\* C5 (state part): the worker has ended only with the channel closed, the
\* barrier is released exactly when the worker has ended, and
\* CloseLogManager has returned only then.
C5_Inv ==
    /\ \A w \in Workers : wpc[w] = "exited" => closed /\ buf = <<>>
    /\ (wg = 0) <=> (\A w \in Workers : wpc[w] = "exited")
    /\ wg \in {0, WgInitial}
    /\ \A c \in Closers : cpc[c] = "returned" => DispatcherState = "Closed"

\* C5 (step part): the state changes only Running -> Draining -> Closed, and
\* leaves Running only in a step of CloseLogManager.
C5_Step ==
    DispatcherState' # DispatcherState =>
        \/ /\ DispatcherState = "Running"
           /\ DispatcherState' = "Draining"
           /\ \E c \in Closers : cpc[c] = "idle" /\ cpc'[c] = "wait"
        \/ /\ DispatcherState = "Draining"
           /\ DispatcherState' = "Closed"

\* C5: lifecycle Running -> Draining -> Closed; only CloseLogManager leaves
\* Running, the worker ends only after the close, and once the channel is
\* closed and the worker is back at its receive it ends and releases the
\* barrier (unless the process panicked first).
C5_Lifecycle ==
    /\ [](C5_Inv)
    /\ [][C5_Step]_vars
    /\ (closed /\ \A w \in Workers : wpc[w] = "recv")
           ~> ((DispatcherState = "Closed" /\ wg = 0) \/ panic # NoPanic)

\* C5 witness: the dispatcher is Closed after a push error, with
\* CloseLogManager returned.
C5_Witness ==
    /\ DispatcherState = "Closed"
    /\ failed # {}
    /\ \E c \in Closers : cpc[c] = "returned"
\* Records a producer is blocked with, in the channel or in the worker's
\* hands, accepted, pushed or finished.
PastEmission ==
    {prec[p] : p \in {q \in Producers : pc[q] \in {"send", "sent"}}}
        \cup SeqToSet(buf) \cup SeqToSet(accepted) \cup SeqToSet(pushed)
        \cup SeqToSet(finished) \cup failed \cup returned

\* C6 as stated: every record handed to SendLog is on the console exactly
\* once, and is there in every state in which it is waiting for the
\* hand-off, accepted, pushed or failed.
C6_Original ==
    /\ \A r \in Sent : Count(console, r) = 1
    /\ Len(console) = Cardinality(Sent)
    /\ PastEmission \subseteq SeqToSet(console)

\* C6 amended: Print runs on the producer before the hand-off for every
\* record; a record whose level is not Debug is on the console exactly once
\* in every state in which it is waiting for the hand-off, accepted, pushed
\* or failed; a Debug record is never on the console (the logger's level is
\* Info) and is handed off and pushed all the same.
C6_EmissionFirst ==
    /\ PastEmission \subseteq Sent
    /\ \A r \in Sent : level[r] # "none"
    /\ \A r \in Sent : Emitted(r) <=> level[r] # "debug"
    /\ \A r \in Sent : Count(console, r) = IF level[r] = "debug" THEN 0 ELSE 1
    /\ Len(console) = Cardinality({r \in Sent : level[r] # "debug"})
    /\ {r \in PastEmission : level[r] # "debug"} \subseteq SeqToSet(console)

\* C6 witness: one record's push has failed, another record is printed with
\* its producer blocked in the hand-off, and a Debug record was pushed
\* without a console line.
C6_Witness ==
    /\ failed # {}
    /\ \E p \in Producers : pc[p] = "send" /\ Count(console, prec[p]) = 1
                            /\ prec[p] \notin SeqToSet(accepted)
    /\ \E r \in SeqToSet(pushed) : level[r] = "debug" /\ Count(console, r) = 0

\* C7: one record at a time, in acceptance order: pushes and completions
\* follow the order of acceptance, the i-th accepted record is finished
\* before the (i+1)-th is accepted, and no record is held by two workers.
C7_SingleConsumerOrder ==
    /\ IsPrefix(finished, accepted)
    /\ IsPrefix(pushed, accepted)
    /\ Len(accepted) - Len(finished) \in {0, 1}
    /\ Len(accepted) - Len(finished) = Cardinality({w \in Workers : Busy(w)})
    /\ client # Nil => Len(pushed) - Len(finished) \in {0, 1}
    /\ \A r \in Records : Count(accepted, r) <= 1
    /\ \A w \in Workers : Busy(w) => cur[w] = accepted[Len(accepted)]
    /\ \A v, w \in Workers : (Busy(v) /\ Busy(w) /\ cur[v] = cur[w]) => v = w

\* C7 witness: three records accepted, the third still in the worker's hands,
\* and accepted in another order than they were handed to SendLog.
C7_Witness ==
    /\ Len(accepted) = 3
    /\ Len(finished) = 2
    /\ accepted[1] > accepted[2]

\* C8: as long as a push has not returned, no record is accepted, no SendLog
\* call returns but that of a record accepted before, every producer at its
\* send stays there (blocked, as long as the channel is open), and no
\* CloseLogManager call returns.
C8_Step ==
    (\E w \in Workers : wpc[w] = "http" /\ wpc'[w] = "http") =>
        /\ accepted' = accepted
        /\ (returned' \ returned) \subseteq SeqToSet(accepted)
        /\ \A p \in Producers : pc[p] = "send" => pc'[p] = "send"
        /\ \A c \in Closers : cpc[c] # "returned" /\ cpc'[c] # "returned"
        /\ ~closed' => panic' = NoPanic

C8_NoTimeoutStall == [][C8_Step]_vars

\* C8 witness: a push is outstanding, a record printed after it is blocked in
\* its hand-off, and CloseLogManager is waiting.
C8_Witness ==
    /\ \E w \in Workers : wpc[w] = "http"
    /\ \E p \in Producers : pc[p] = "send" /\ prec[p] \in SeqToSet(console)
    /\ \E c \in Closers : cpc[c] = "wait"

\* The sink is there and disabled, or has no push URL.
SinkDisabled == client # Nil /\ (~client.Enabled \/ client.PushURL = "")

\* The sink is enabled with a non-empty push URL.
SinkEnabled == client # Nil /\ client.Enabled /\ client.PushURL # ""

\* PushLog calls that have returned.
PushesReturned == Len(pushed) - Cardinality({w \in Workers : wpc[w] = "http"})

\* C9: with the sink disabled or its URL empty, every PushLog call has
\* returned nil and no client.Do call was ever made.
C9_DisabledSinkNoop ==
    SinkDisabled =>
        /\ httpCalls = 0
        /\ failed = {}
        /\ errLogs = 0
        /\ \A w \in Workers : wpc[w] # "http"
        /\ lastPush.calls = 0 /\ ~lastPush.err
        /\ finished = pushed

\* C9 witness: two PushLog calls have returned on a sink that is enabled but
\* has no URL.
C9_Witness ==
    /\ SinkDisabled
    /\ client.Enabled
    /\ Len(pushed) = 2
    /\ lastPush.rec = pushed[2]

\* Success exactly on a completed request answered 200 or 204.
PushResultRule ==
    lastPush.rec # 0 =>
        (~lastPush.err <=>
            /\ lastPush.calls = 1
            /\ ~lastPush.outcome.transport
            /\ lastPush.outcome.status \in {200, 204})

\* C10 as stated: on an enabled sink with a non-empty URL, PushLog succeeds
\* exactly on status 200 or 204 and every call makes exactly one request.
C10_Original ==
    SinkEnabled =>
        /\ PushResultRule
        /\ lastPush.rec # 0 => lastPush.calls = 1
        /\ httpCalls = Len(pushed)

\* C10 amended: on an enabled sink with a non-empty URL, PushLog succeeds
\* exactly on status 200 or 204, every failure is an error for the caller,
\* and a call makes at most one request: exactly one when the request can be
\* built from the URL, none (and an error) when http.NewRequest rejects it.
C10_PushResult ==
    SinkEnabled =>
        /\ PushResultRule
        /\ lastPush.rec # 0 =>
               /\ lastPush.err => lastPush.rec \in failed
               /\ ~lastPush.err => lastPush.rec \notin failed
        /\ IF client.PushURL = MalformedURL
           THEN /\ httpCalls = 0
                /\ lastPush.calls = 0
                /\ failed = SeqToSet(pushed)
           ELSE /\ httpCalls = Len(pushed)
                /\ lastPush.rec # 0 => lastPush.calls = 1

\* C10 witness: on an enabled sink with a good URL one push was answered 204
\* and succeeded and a later one was answered 201 and failed.
C10_Witness ==
    /\ SinkEnabled
    /\ client.PushURL = GoodURL
    /\ Len(finished) = 2
    /\ finished[1] \notin failed
    /\ lastPush.rec = finished[2]
    /\ lastPush.outcome = Response(201)
    /\ lastPush.err
    /\ httpCalls = 2

\* Records i and j of sequence s, sent by the same producer, stand in s in
\* the order in which they were printed.
SameProducerInOrder(s) ==
    \A i, j \in 1..Len(s) :
        (i < j /\ owner[s[i]] = owner[s[j]]) => s[i] < s[j]

\* Two records that stand in both sequences stand in them in the same order.
OrdersAgree(s, t) ==
    \A i, j \in 1..Len(s) : \A k, l \in 1..Len(t) :
        (s[i] = t[k] /\ s[j] = t[l] /\ i < j) => k < l

\* C14: the records of one producer are accepted and pushed in the order in
\* which they were printed, so with a single producer the console order and
\* the push order agree; across producers they need not (see the witness).
C14_OrdersAgreePerProducer ==
    /\ SameProducerInOrder(console)
    /\ SameProducerInOrder(accepted)
    /\ SameProducerInOrder(pushed)
    /\ Cardinality({owner[r] : r \in Sent}) <= 1 =>
           /\ OrdersAgree(console, accepted)
           /\ OrdersAgree(console, pushed)
           /\ OrdersAgree(console, finished)
           /\ \A i \in 1..Len(pushed) :
                  Emitted(pushed[i]) => pushed[i] \in SeqToSet(console)

\* C14 witness: record 1 was printed before record 2, by another producer,
\* and record 2 was accepted and pushed before record 1.
C14_Witness ==
    /\ Len(console) >= 2 /\ console[1] = 1 /\ console[2] = 2
    /\ owner[1] # owner[2]
    /\ Len(pushed) >= 2 /\ pushed[1] = 2 /\ pushed[2] = 1
    /\ Len(accepted) >= 2 /\ accepted[1] = 2 /\ accepted[2] = 1

\* C16 (state part): with a nil client no PushLog call, no request and no
\* error log is ever made, and the worker still receives: every record whose
\* SendLog returned was accepted, and once CloseLogManager has returned every
\* accepted record is finished.
C16_Inv ==
    client = Nil =>
        /\ pushed = <<>> /\ pushArgs = <<>> /\ posted = <<>>
        /\ httpCalls = 0 /\ errLogs = 0 /\ failed = {}
        /\ lastPush = NoPush
        /\ \A w \in Workers : wpc[w] # "http"
        /\ returned \subseteq SeqToSet(accepted)
        /\ (\E c \in Closers : cpc[c] = "returned") => finished = accepted

\* C16: no sink configured: nothing is pushed, and the worker always gets
\* back to its receive, so it keeps accepting and CloseLogManager drains.
C16_NilSinkNoPush ==
    /\ [](C16_Inv)
    /\ \A w \in Workers :
           (client = Nil /\ wpc[w] = "got") ~> (wpc[w] = "recv" \/ panic # NoPanic)
    /\ \A c \in Closers :
           (client = Nil /\ cpc[c] = "wait")
               ~> (cpc[c] = "returned" \/ panic # NoPanic)

\* C16 witness: with a nil client two records were accepted and finished and
\* CloseLogManager has returned.
C16_Witness ==
    /\ client = Nil
    /\ Len(finished) >= 2
    /\ returned = Sent
    /\ \E c \in Closers : cpc[c] = "returned"

\* Records accepted or waiting in the channel and not finished.
Unfinished == (SeqToSet(accepted) \cup SeqToSet(buf)) \ SeqToSet(finished)

\* C17 (step part): after the close nothing more is accepted, so what
\* remains to be finished is what was in flight at the close.
C17_Step == closed' => (Unfinished' \subseteq Unfinished /\ accepted' = accepted)

\* C17: at most one record is accepted and not finished, in every state and
\* so at the close; SendLog may have returned for it already.
C17_OneInFlight ==
    /\ [](Cardinality(Unfinished) <= 1)
    /\ [](Cardinality({w \in Workers : Busy(w)}) = Cardinality(Unfinished))
    /\ [][C17_Step]_vars

\* C17 witness: SendLog has returned for a record whose push is still
\* outstanding, and the channel has just been closed with it in flight.
C17_Witness ==
    /\ closed
    /\ \E w \in Workers : wpc[w] = "http" /\ cur[w] \in returned
                          /\ cur[w] \notin SeqToSet(finished)
    /\ Cardinality(Unfinished) = 1

\* C18: PushLog returns errors only on an enabled sink with a non-empty URL,
\* the configuration never changes, and every error is logged exactly once;
\* a disabled sink logs none.
C18_Inv ==
    /\ failed # {} => (client # Nil /\ client.Enabled /\ client.PushURL # "")
    /\ errLogs = Cardinality(failed)
    /\ lastPush.err => lastPush.rec \in failed
    /\ (client # Nil /\ ~client.Enabled) => errLogs = 0

C18_EveryPushErrorLogged == [](C18_Inv) /\ [][client' = client]_vars

\* C18 witness: two pushes failed, one on a transport error and one on a
\* status, and two error lines were logged.
C18_Witness ==
    /\ Cardinality(failed) = 2
    /\ errLogs = 2
    /\ lastPush.err /\ lastPush.outcome.transport

\* C19 (state part): only one CloseLogManager call ever gets past the close,
\* and a close-of-closed panic is there only with a caller that never did.
C19_Inv ==
    /\ Cardinality({c \in Closers : cpc[c] # "idle"}) <= 1
    /\ panic = PanicClose =>
           /\ closed
           /\ \E c \in Closers : cpc[c] # "idle"
           /\ \E c \in Closers : cpc[c] = "idle"

\* C19 (step part): on a closed channel a CloseLogManager call never gets
\* to its Wait and never returns; the one step it can take ends the process.
C19_Step ==
    \A c \in Closers :
        (closed /\ cpc[c] = "idle") =>
            /\ cpc'[c] = "idle"
            /\ (panic = NoPanic /\ panic' # NoPanic /\ pc' = pc /\
                \A p \in Producers : pc[p] # "send") => panic' = PanicClose

\* C19: CloseLogManager is not idempotent: a second call, after the first
\* returned or while it waits, panics on the close instead of returning.
C19_CloseNotIdempotent == [](C19_Inv) /\ [][C19_Step]_vars

\* C19 witness: the first CloseLogManager call returned and a second call
\* panicked.
C19_Witness ==
    /\ panic = PanicClose
    /\ \E c \in Closers : cpc[c] = "returned"
    /\ \E c \in Closers : cpc[c] = "idle"

\* C19 witness, concurrent case: the second call panicked while the first
\* was waiting.
C19_WitnessConcurrent ==
    /\ panic = PanicClose
    /\ \E c \in Closers : cpc[c] = "wait"
\* The number a sequence of decimal digits stands for.
RECURSIVE DigitsValue(_)
DigitsValue(d) ==
    IF d = <<>> THEN 0 ELSE 10 * DigitsValue(SubSeq(d, 1, Len(d) - 1)) + d[Len(d)]

\* PushLog calls that have been made and have not returned.
PushesInProgress == Cardinality({w \in Workers : wpc[w] = "http"})

\* Every PushLog call so far was made for the record accepted at the same
\* position, with the sink's job, that record's Type and its Timestamp.
OnePushPerRecord ==
    /\ Len(pushArgs) = Len(pushed)
    /\ IsPrefix(pushed, accepted)
    /\ \A r \in Records : Count(pushed, r) <= 1
    /\ \A i \in 1..Len(pushArgs) :
           /\ pushArgs[i].labels = [job |-> client.Job, type |-> LogOf(pushed[i]).Type]
           /\ DOMAIN pushArgs[i].labels = {"job", "type"}
           /\ pushArgs[i].entry.Timestamp = LogOf(pushed[i]).Timestamp
           /\ pushArgs[i].entry.Line = LogString(LogOf(pushed[i]))

\* Every payload handed to client.Do has one stream with one value pair: the
\* record's timestamp in decimal and its line, under the labels of the call.
OneValuePerPayload ==
    /\ Len(posted) = httpCalls
    /\ Len(posted) <= Len(pushArgs)
    /\ \A i \in 1..Len(posted) :
           /\ Len(posted[i].streams) = 1
           /\ Len(posted[i].streams[1].values) = 1
           /\ posted[i].streams[1].stream = pushArgs[i].labels
           /\ DigitsValue(posted[i].streams[1].values[1][1])
                  = LogOf(pushed[i]).Timestamp
           /\ posted[i].streams[1].values[1][2] = pushArgs[i].entry.Line

\* C15 as stated: with a sink configured, one PushLog call per accepted
\* record, one stream and one value pair per payload, and the number of
\* PushLog calls equal to the number of finished records in every state.
C15_Original ==
    client # Nil =>
        /\ OnePushPerRecord
        /\ OneValuePerPayload
        /\ Len(pushArgs) = Len(finished)

\* C15 amended: as stated, except that the number of PushLog calls equals the
\* number of finished records only while no call is in progress; during a
\* call it is one more, the record being pushed not being finished yet.
C15_OnePushPerRecord ==
    client # Nil =>
        /\ OnePushPerRecord
        /\ OneValuePerPayload
        /\ Len(pushArgs) = Len(finished) + PushesInProgress
        /\ PushesInProgress <= 1
        /\ (\A w \in Workers : wpc[w] \in {"recv", "exited"})
               => Len(pushArgs) = Len(accepted)

\* C15 witness: three records of both types were pushed to an enabled sink,
\* three payloads posted, all calls returned.
C15_Witness ==
    /\ SinkEnabled /\ client.PushURL = GoodURL
    /\ Len(posted) = 3 /\ Len(finished) = 3
    /\ posted[1].streams[1].stream.type # posted[2].streams[1].stream.type
\* Two characters equal up to the case of an ASCII letter.
SameLetter(x, y) ==
    \/ x = y
    \/ \E i \in 1..Len(LowerLetters) : {x, y} = {LowerLetters[i], UpperLetters[i]}

\* Two names equal ignoring case.
EqualIgnoringCase(a, b) ==
    Len(a) = Len(b) /\ \A i \in 1..Len(a) : SameLetter(a[i], b[i])

\* The last of the first n AddTemplate calls whose name equals this one
\* ignoring case (0: none).
LastAdd(name, n) ==
    LET hits == {i \in 1..n : EqualIgnoringCase(addHistory[i].name, name)}
    IN IF hits = {} THEN 0 ELSE CHOOSE i \in hits : \A j \in hits : j <= i

\* C12: the registry holds, for every name, the format string of the most
\* recent AddTemplate whose name equals it ignoring case, whatever case the
\* lookup is written in, and formatTemplate formats with that string.
C12_LastWriteWinsIgnoringCase ==
    /\ \A name \in ResolveNames :
           LET i == LastAdd(name, Len(addHistory))
           IN IF i = 0
              THEN ToUpper(name) \notin DOMAIN Templates
              ELSE /\ ToUpper(name) \in DOMAIN Templates
                   /\ Templates[ToUpper(name)] = addHistory[i].template
    /\ lastResolve.called =>
           LET i == LastAdd(lastResolve.name, lastResolve.at)
           IN i > 0 =>
                  lastResolve.msg = Sprintf(addHistory[i].template, lastResolve.args)

\* C12 witness: "foo" was added with one format string, "FOO" later with
\* another, and a lookup of "Foo" was formatted with the later one.
C12_Witness ==
    /\ Len(addHistory) >= 2
    /\ addHistory[1].name = NameFooLower
    /\ addHistory[2].name = NameFooUpper
    /\ addHistory[1].template # addHistory[2].template
    /\ lastResolve.called /\ lastResolve.name = NameFooMixed /\ lastResolve.at = 2
    /\ lastResolve.args = <<IntArg(1)>>
    /\ lastResolve.msg = <<Lit("b"), Lit(" "), [badverb |-> "s", arg |-> IntArg(1)],
                           Lit(" "), [missing |-> "d"]>>

\* C13: with no template under the upper-cased name, formatTemplate formats
\* the name as written: "id %v" with 1 gives "id 1" (not the bad verb of
\* "ID %V"), "X_UNKNOWN" with 1, 2 gives the name followed by the two extra
\* arguments; the result is always a string.
C13_FallbackFormatsNameAsWritten ==
    (lastResolve.called /\ LastAdd(lastResolve.name, lastResolve.at) = 0) =>
        /\ lastResolve.msg = Sprintf(lastResolve.name, lastResolve.args)
        /\ (lastResolve.name = NameIdVerb /\ lastResolve.args = <<IntArg(1)>>)
               => lastResolve.msg = <<Lit("i"), Lit("d"), Lit(" "), [shown |-> 1]>>
        /\ (lastResolve.name = NameUnknown /\ lastResolve.args = <<IntArg(1), IntArg(2)>>)
               => lastResolve.msg =
                      Literal(NameUnknown) \o << [extra |-> <<IntArg(1), IntArg(2)>>] >>

\* C13 witness: "id %v" was resolved with argument 1 while templates were
\* registered under other names only.
C13_Witness ==
    /\ Len(addHistory) >= 1
    /\ lastResolve.called
    /\ lastResolve.name = NameIdVerb
    /\ lastResolve.args = <<IntArg(1)>>
    /\ LastAdd(NameIdVerb, lastResolve.at) = 0
    /\ lastResolve.at >= 1
    /\ lastResolve.msg = <<Lit("i"), Lit("d"), Lit(" "), [shown |-> 1]>>
\* C11 (state part): a request was answered 500 exactly when SAVE_TO_FILE is
\* on and its saveToFile failed, and 200 otherwise, whatever the sink's
\* configuration and whatever became of the record's push.
C11_Inv ==
    \A r \in Records :
        /\ saved[r] = "err" => saveToFileEnabled
        /\ responses[r] # 0 =>
               /\ responses[r] \in {200, 500}
               /\ responses[r] = 500 <=> (saveToFileEnabled /\ saved[r] = "err")
               /\ r \in returned

\* C11 (step part): a response once written never changes, the step that
\* writes it is no step of the worker, and no step of the worker (a PushLog
\* call, its return, an error line) touches a response.
C11_Step ==
    /\ \A r \in Records : responses[r] # 0 => responses'[r] = responses[r]
    /\ responses' # responses => pushVars' = pushVars /\ workerVars' = workerVars

\* C11: the response of handleActionEvent depends on saveToFile alone.
C11_ResponseIndependentOfPush == [](C11_Inv) /\ [][C11_Step]_vars

\* C11 witness: one request was answered 200 and its record's push failed,
\* another was answered 500 and its record's push succeeded.
C11_Witness ==
    \E r1, r2 \in Records :
        /\ responses[r1] = 200 /\ r1 \in failed
        /\ responses[r2] = 500 /\ r2 \in SeqToSet(finished) \ failed
        /\ client.Enabled /\ client.PushURL = GoodURL

\* A request whose record's push had already failed when the handler came
\* back from SendLog is answered 200 all the same.
C11_WitnessLateReturn ==
    \E p \in Producers :
        /\ pc[p] = "sent" /\ prec[p] \in failed /\ saved[prec[p]] = "ok"
        /\ \E r \in Records : responses[r] = 200 /\ r \in failed

\* C20 (state part): in the program the channel is never closed, no
\* CloseLogManager call is ever made, the dispatcher is Running with its
\* worker alive and the barrier held, also after the process has exited.
C20_Inv ==
    /\ ~closed
    /\ \A c \in Closers : cpc[c] = "idle"
    /\ DispatcherState = "Running"
    /\ \A w \in Workers : wpc[w] # "exited" /\ ~ENABLED RangeRecv(w)
    /\ wg = WgInitial
    /\ panic \in {NoPanic, FatalExit}

\* C20 (step part): after the exit nothing happens any more: a record in the
\* worker's hands then is never finished.
C20_Step == panic = FatalExit => FALSE

\* C20: main never shuts the dispatcher down; log.Fatal ends the process
\* with the dispatcher Running, and a record whose push is outstanding is
\* lost.
C20_NeverShutDown == [](C20_Inv) /\ [][C20_Step]_vars

\* C20 witness: the process has exited with a record accepted, its request
\* answered 200, and its push outstanding.
C20_Witness ==
    /\ panic = FatalExit
    /\ \E w \in Workers :
           /\ wpc[w] = "http"
           /\ responses[cur[w]] = 200
           /\ cur[w] \notin SeqToSet(finished)
====
